---- MODULE Spec2Model ----
(***************************************************************************)
(* termle: a terminal Wordle clone.  The repository holds two programs:   *)
(* the game with hard mode and a shareable score (type game, its methods  *)
(* and main) and the earlier program src/termle.go (type board and main). *)
(* Go strings are sequences of one-character strings; a Go index i is     *)
(* the sequence index i + 1.                                              *)
(***************************************************************************)
EXTENDS Integers, Sequences, FiniteSets, TLC

\* ------------------------------------------------------------- bounds
\* Number of letters of EvalLetters the evaluation inputs are built over.
NumLetters == 2
\* Number of entries of GuessList that make up guesses.txt.
NumGuesses == 3
\* Number of entries of AnswerList that make up answers.txt.
NumAnswers == 2
\* Days after the first day the clock of the day computation may show.
ClockDays == 2

\* ------------------------------------------------------------ strings
Upper == <<"A","B","C","D","E","F","G","H","I","J","K","L","M",
           "N","O","P","Q","R","S","T","U","V","W","X","Y","Z">>
Lower == <<"a","b","c","d","e","f","g","h","i","j","k","l","m",
           "n","o","p","q","r","s","t","u","v","w","x","y","z">>
Digits == <<"0","1","2","3","4","5","6","7","8","9">>
Space == {" ", "\t", "\r", "\n"}

Range(s) == {s[i] : i \in DOMAIN s}

\* unicode.ToUpper on one rune
ToUpperRune(c) ==
  IF \E k \in DOMAIN Lower : Lower[k] = c
  THEN Upper[CHOOSE k \in DOMAIN Lower : Lower[k] = c]
  ELSE c

\* strings.ToUpper
ToUpper(s) == [i \in DOMAIN s |-> ToUpperRune(s[i])]

\* strings.TrimSpace: drops leading and trailing white space
TrimSpace(s) ==
  LET keep == {i \in DOMAIN s : s[i] \notin Space} IN
  IF keep = {} THEN <<>>
  ELSE LET lo == CHOOSE i \in keep : \A j \in keep : i <= j
           hi == CHOOSE i \in keep : \A j \in keep : j <= i
       IN SubSeq(s, lo, hi)

\* valid = regexp.MustCompile(`^[A-Za-z]{5}$`); valid.MatchString(s)
valid_MatchString(s) ==
  /\ Len(s) = 5
  /\ \A i \in DOMAIN s : s[i] \in Range(Upper) \cup Range(Lower)

\* strings.ContainsRune / strings.Contains with a one-letter needle
ContainsRune(s, r) == \E i \in DOMAIN s : s[i] = r

\* strconv.Itoa for n >= 0
RECURSIVE Itoa(_)
Itoa(n) == IF n < 10 THEN <<Digits[n + 1]>> ELSE Itoa(n \div 10) \o <<Digits[(n % 10) + 1]>>

\* ---------------------------------------------------------- constants
totalWordles == 2315
blackSquare == "black_square"
yellowSquare == "yellow_square"
greenSquare == "green_square"
\* the zero rune: var emptyRune rune
emptyRune == ""

\* -------------------------------------------------------- word lists
\* The embedded files are not part of the sources; these lists stand for them.
GuessList == << <<"a","l","l","o","t">>, <<"l","l","a","m","a">>,
                <<"t","r","a","c","e">>, <<"c","r","a","n","e">>,
                <<"a","t","o","l","l">>, <<"t","o","t","a","l">> >>
AnswerList == << <<"a","l","l","o","t">>, <<"r","e","a","c","h">>,
                 <<"c","r","a","n","e">>, <<"a","t","o","l","l">> >>
\* guesses.txt, as its lines
guessesTxt == SubSeq(GuessList, 1, NumGuesses)
\* answers.txt, as its bytes: records of five letters and a two-byte line ending
RECURSIVE fileOf(_)
fileOf(lines) ==
  IF lines = <<>> THEN <<>> ELSE Head(lines) \o <<"\r", "\n">> \o fileOf(Tail(lines))
answersTxt == fileOf(SubSeq(AnswerList, 1, NumAnswers))

\* answers: the bytes of the embedded answers.txt the programs were built
\* with; g: the game (*game of main); accepted: the guesses addGuess returned from,
\* in order; termle: the locals of main in src/termle.go; pc: where main is;
\* text: s.Text(), the line last scanned; stdout: the terminal since it was
\* last cleared; now, zone: the instant and the local zone offset the flag
\* defaults are computed at; dayFlag: the default of the -day flag.
VARIABLES answers, g, accepted, termle, pc, text, stdout, now, zone, dayFlag

vars == <<answers, g, accepted, termle, pc, text, stdout, now, zone, dayFlag>>

\* ------------------------------------------------------------- output
\* What fmt.Print wrote to the terminal since the last clearBoard, as a
\* sequence of strings; "\n" is the line break of Println.
green(l) == <<"ESC[37;102m", l, "ESC[0m">>
yellow(l) == <<"ESC[37;103m", l, "ESC[0m">>
white(l) == <<"ESC[0;107m", l, "ESC[0m">>
black(l) == <<"ESC[37;100m", l, "ESC[0m">>
prompt == <<">">>

RECURSIVE Concat(_)
Concat(ss) == IF ss = <<>> THEN <<>> ELSE Head(ss) \o Concat(Tail(ss))

\* ------------------------------------------------------------- assets
\* guessesSet(): the upper-cased lines of guesses.txt
guessesSet == {ToUpper(guessesTxt[k]) : k \in DOMAIN guessesTxt}

\* bufio.ScanLines over data from byte i on: the lines, each without its
\* line ending ("\n", and a "\r" before it); cur is the line being read
RECURSIVE scanLines(_, _, _)
scanLines(data, i, cur) ==
  IF i > Len(data) THEN (IF cur = <<>> THEN <<>> ELSE <<cur>>)
  ELSE IF data[i] = "\n"
  THEN <<IF cur # <<>> /\ cur[Len(cur)] = "\r" THEN SubSeq(cur, 1, Len(cur) - 1) ELSE cur>>
       \o scanLines(data, i + 1, <<>>)
  ELSE scanLines(data, i + 1, Append(cur, data[i]))

\* answerForDay(day): Scan day+1 times, then the upper-cased s.Text(); a
\* Scan past the last line leaves the empty token, and so do no Scans.
answerForDay(day) ==
  LET lines == scanLines(answers, 1, <<>>) IN
  IF day >= 0 /\ day + 1 <= Len(lines) THEN ToUpper(lines[day + 1]) ELSE <<>>

\* --------------------------------------------------------------- game
newGame(day, hardmode) ==
  [ day            |-> day,
    currentTurn    |-> 0,
    turnsRemaining |-> 6,
    complete       |-> FALSE,
    won            |-> FALSE,
    hardMode       |-> hardmode,
    hints          |-> [yellow |-> {}, green |-> [i \in 1..5 |-> emptyRune]],
    answer         |-> answerForDay(day),
    validGuesses   |-> guessesSet,
    board          |-> [r \in 1..6 |-> [i \in 1..5 |->
                          [color |-> blackSquare, letter |-> "_"]]] ]

\* a Go map[rune]int: a missing key reads as 0
mapGet(m, k) == IF k \in DOMAIN m THEN m[k] ELSE 0
mapSet(m, k, v) == [x \in DOMAIN m \cup {k} |-> IF x = k THEN v ELSE m[x]]

\* for _, r := range g.answer { freq[r]++ }
RECURSIVE countRunes(_, _, _)
countRunes(answer, i, freq) ==
  IF i > Len(answer) THEN freq
  ELSE countRunes(answer, i + 1, mapSet(freq, answer[i], mapGet(freq, answer[i]) + 1))

\* the comparison one index off
isGreen_offByOne(answer, i, r) == i < Len(answer) /\ answer[i + 1] = r

\* rune(g.answer[i]) == r
isGreen(answer, i, r) == answer[i] = r

\* the condition without strings.ContainsRune and the budget
isYellow_anyLetter(answer, i, r, freq) == answer[i] # r

\* the condition without the letter's budget
isYellow_noBudget(answer, i, r, freq) == answer[i] # r /\ ContainsRune(answer, r)

\* rune(g.answer[i]) != r && strings.ContainsRune(g.answer, r) && freq[r] > 0
isYellow(answer, i, r, freq) ==
  answer[i] # r /\ ContainsRune(answer, r) /\ mapGet(freq, r) > 0

\* g.board[g.currentTurn] exists
rowInRange(gm) == gm.currentTurn >= 0 /\ gm.currentTurn <= 5

\* The first loop of addGuess from index i on.  st = [g, freq, panicked];
\* an index out of range (of g.answer or of g.board) panics.
RECURSIVE firstLoop(_, _, _)
firstLoop(st, guess, i) ==
  IF i > Len(guess) \/ st.panicked THEN st
  ELSE LET r == guess[i]
           row == st.g.currentTurn + 1
       IN
       IF i > Len(st.g.answer) THEN [st EXCEPT !.panicked = TRUE]
       ELSE IF ~rowInRange(st.g)
       THEN [st EXCEPT !.panicked = TRUE,
                       !.freq = IF isGreen(st.g.answer, i, r)
                                THEN mapSet(@, r, mapGet(@, r) - 1) ELSE @]
       ELSE IF isGreen(st.g.answer, i, r)
       THEN firstLoop([st EXCEPT !.freq = mapSet(@, r, mapGet(@, r) - 1),
                                 !.g.board[row][i] = [color |-> greenSquare, letter |-> r],
                                 !.g.hints.green[i] = r], guess, i + 1)
       ELSE firstLoop([st EXCEPT !.g.board[row][i].letter = r], guess, i + 1)

\* The second loop of addGuess from index i on.
RECURSIVE secondLoop(_, _, _)
secondLoop(st, guess, i) ==
  IF i > Len(guess) \/ st.panicked THEN st
  ELSE LET r == guess[i]
           row == st.g.currentTurn + 1
       IN
       IF isYellow(st.g.answer, i, r, st.freq)
       THEN secondLoop([st EXCEPT !.freq = mapSet(@, r, mapGet(@, r) - 1),
                                  !.g.board[row][i] = [color |-> yellowSquare, letter |-> r],
                                  !.g.hints.yellow = @ \cup {r}], guess, i + 1)
       ELSE secondLoop(st, guess, i + 1)

\* the condition without `g.turnsRemaining == 0`
isComplete_noLastTurn(gm, guess, remaining) == gm.complete \/ guess = gm.answer

\* g.complete after the turn: guess == g.answer || g.turnsRemaining == 0
isComplete(gm, guess, remaining) == gm.complete \/ guess = gm.answer \/ remaining = 0

\* g.won after the turn: guess == g.answer
isWon(gm, guess) == gm.won \/ guess = gm.answer

\* the turn counter left as it was
nextTurn_same(turn) == turn

\* the turn counter after the turn: g.currentTurn++
nextTurn(turn) == turn + 1

\* The end of addGuess: the counters and the two flags.
endTurn(gm, guess) ==
  [gm EXCEPT !.turnsRemaining = gm.turnsRemaining - 1,
             !.currentTurn = nextTurn(gm.currentTurn),
             !.complete = isComplete(gm, guess, gm.turnsRemaining - 1),
             !.won = isWon(gm, guess)]

\* (g *game) addGuess(guess): [g |-> the game after the call, panicked |->
\* whether the call panicked, and then g is the game as the panic left it].
addGuess(gm, guess) ==
  LET st0 == [g |-> gm, freq |-> countRunes(gm.answer, 1, <<>>), panicked |-> FALSE]
      st1 == firstLoop(st0, guess, 1)
      st2 == secondLoop(st1, guess, 1)
  IN IF st2.panicked THEN [g |-> st2.g, panicked |-> TRUE]
     ELSE [g |-> endTurn(st2.g, guess), panicked |-> FALSE]

\* no yellow letter is required
missingYellow_none(gm, guess) == {}

\* the yellow letters a guess lacks
missingYellow(gm, guess) == {l \in gm.hints.yellow : ~ContainsRune(guess, l)}

\* the comparison without `greenHint != emptyRune`
wrongGreen_noEmptyCheck(gm, guess) ==
  {i \in 1..5 : gm.hints.green[i] # guess[i]}

\* no green hint is required
wrongGreen_none(gm, guess) == {}

\* the positions whose green hint a guess does not repeat
wrongGreen(gm, guess) ==
  {i \in 1..5 : gm.hints.green[i] # emptyRune /\ gm.hints.green[i] # guess[i]}

\* checkHints returning after the first yellow letter its range yields
checkHints_firstYellowOnly(gm, guess) ==
  LET greens ==
        IF wrongGreen(gm, guess) # {}
        THEN LET i == CHOOSE p \in wrongGreen(gm, guess) :
                         \A q \in wrongGreen(gm, guess) : p <= q
             IN {<<"position ">> \o Itoa(i - 1)
                   \o <<" must contain \"", gm.hints.green[i], "\"">>}
        ELSE {<<>>}
  IN IF gm.hints.yellow = {} THEN greens
     ELSE UNION {IF ContainsRune(guess, l) THEN greens
                 ELSE {<<"guess must contain \"", l, "\"">>} : l \in gm.hints.yellow}

\* (g *game) checkHints(guess): the set of errors the call may return, {nil}
\* when it returns nil.  The yellow letters are a Go map, ranged over in an
\* unspecified order, so the letter named is any of the missing ones.  Its
\* "Checking yellows" line is wiped by the clearBoard of the print that follows.
checkHints(gm, guess) ==
  IF missingYellow(gm, guess) # {}
  THEN {<<"guess must contain \"", l, "\"">> : l \in missingYellow(gm, guess)}
  ELSE IF wrongGreen(gm, guess) # {}
  THEN LET i == CHOOSE p \in wrongGreen(gm, guess) : \A q \in wrongGreen(gm, guess) : p <= q
       IN {<<"position ">> \o Itoa(i - 1) \o <<" must contain \"", gm.hints.green[i], "\"">>}
  ELSE {<<>>}

\* ----------------------------------------------------------- printing
\* one cell of (g *game) print(): " " + the letter in the cell's colour
printCell(x) ==
  <<" ">> \o (IF x.color = greenSquare THEN green(x.letter)
              ELSE IF x.color = yellowSquare THEN yellow(x.letter)
              ELSE black(x.letter))

\* (g *game) print()
print(gm) ==
  <<"Wordle ">> \o (IF gm.day < 0 THEN <<"-">> \o Itoa(-gm.day) ELSE Itoa(gm.day)) \o <<"\n">>
  \o Concat([r \in 1..6 |-> Concat([i \in 1..5 |-> printCell(gm.board[r][i])]) \o <<"\n">>])

\* (g *game) printTurn(): the terminal after clearBoard, print, prompt
printTurn(gm) == print(gm) \o prompt

\* (g *game) printTurnWithError(err)
printTurnWithError(gm, err) == print(gm) \o err \o <<"\n">> \o prompt

\* the rows printShareableScore prints: the colours of rows 0..currentTurn-1
scoreRows(gm) ==
  Concat([r \in 1..gm.currentTurn |->
            [i \in 1..5 |-> gm.board[r][i].color] \o <<"\n">>])

\* (g *game) printShareableScore(): what it appends to the terminal
printShareableScore(gm) ==
  (IF gm.won THEN <<"you won!", "\n">>
   ELSE <<"you lose!", "\n", "Answer was", " ">> \o gm.answer \o <<"\n">>)
  \o <<"Wordle ">> \o (IF gm.day < 0 THEN <<"-">> \o Itoa(-gm.day) ELSE Itoa(gm.day))
  \o <<" ">> \o (IF gm.won THEN Itoa(gm.currentTurn) ELSE <<"X">>) \o <<"/6", "\n", "\n">>
  \o scoreRows(gm)

\* --------------------------------------------------------------- main
\* the values of the -day flag the model starts games with: one below the
\* first line of answers.txt, every line, and one past the last
Days == (-1)..NumAnswers

\* lines of standard input beside the words of guesses.txt: a word in
\* lower case with white space around it, a well-formed word that is not in
\* the list, and lines that are not five letters
OtherLines ==
  { <<" ","c","r","a","n","e"," ">>, <<"M","M","M","M","M">>,
    <<"C","R","A","N">>, <<"C","R","A","N","E","S">>, <<"C","R","4","N","E">>, <<>> }
InputLines == guessesSet \cup OtherLines

\* no game: main has not called newGame
noGame == <<>>
\* the other program and the clock take no part in a game
noTermle == [answer |-> <<>>, validGuesses |-> {}, b |-> <<>>,
             currentTurn |-> 0, turnsRemaining |-> 0]
idle == <<answers, termle, now, zone, dayFlag>>

Init ==
  /\ answers = answersTxt
  /\ \E day \in Days, hardmode \in BOOLEAN :
        /\ g = newGame(day, hardmode)
        /\ stdout = printTurn(newGame(day, hardmode))
  /\ pc = "loop"
  /\ text = <<>>
  /\ accepted = <<>>
  /\ termle = noTermle
  /\ now = 0 /\ zone = 0 /\ dayFlag = <<>>

\* the loop without its !g.complete
loopCond_always(gm) == TRUE

\* the condition of the loop beside s.Scan(): !g.complete
loopCond(gm) == ~gm.complete

\* a rejected line that uses up the turn
reject_consumesTurn(gm, err) ==
  [gm EXCEPT !.turnsRemaining = @ - 1, !.currentTurn = @ + 1]

\* `continue` after printTurnWithError: the line is rejected
reject(gm, err) == gm

\* One iteration of main's loop on the line s.Scan() read; err is what
\* checkHints returned, nil when hard mode is off and it was not called.
main_iteration(line) ==
  /\ pc = "loop"
  /\ loopCond(g)
  /\ text' = line
  /\ LET guess == ToUpper(TrimSpace(line)) IN
     IF ~valid_MatchString(guess)
     THEN /\ g' = reject(g, <<"Please enter a 5 letter word">>)
          /\ stdout' = printTurnWithError(g', <<"Please enter a 5 letter word">>)
          /\ UNCHANGED <<pc, accepted, idle>>
     ELSE IF guess \notin g.validGuesses
     THEN /\ g' = reject(g, <<"Not in word list">>)
          /\ stdout' = printTurnWithError(g', <<"Not in word list">>)
          /\ UNCHANGED <<pc, accepted, idle>>
     ELSE \E err \in (IF g.hardMode THEN checkHints(g, guess) ELSE {<<>>}) :
            IF err # <<>>
            THEN /\ g' = reject(g, <<"Hard Mode: ">> \o err)
                 /\ stdout' = printTurnWithError(g', <<"Hard Mode: ">> \o err)
                 /\ UNCHANGED <<pc, accepted, idle>>
            ELSE LET res == addGuess(g, guess) IN
                 /\ g' = res.g
                 /\ IF res.panicked
                    THEN pc' = "panic" /\ UNCHANGED <<stdout, accepted>>
                    ELSE /\ pc' = "loop"
                         /\ stdout' = printTurn(res.g)
                         /\ accepted' = Append(accepted, guess)
                 /\ UNCHANGED idle

\* the score printed whenever the loop ends
printsScore_always(gm) == TRUE

\* whether main prints the score after the loop: if g.complete
printsScore(gm) == gm.complete

\* The loop ends because the game is complete; s.Err() is nil.
main_complete ==
  /\ pc = "loop"
  /\ ~loopCond(g)
  /\ pc' = "done"
  /\ stdout' = IF printsScore(g) THEN stdout \o printShareableScore(g) ELSE stdout
  /\ UNCHANGED <<g, text, accepted, idle>>

\* s.Scan() returns false at the end of the input; s.Err() is nil.
main_eof ==
  /\ pc = "loop"
  /\ loopCond(g)
  /\ pc' = "done"
  /\ text' = <<>>
  /\ stdout' = IF printsScore(g) THEN stdout \o printShareableScore(g) ELSE stdout
  /\ UNCHANGED <<g, accepted, idle>>

\* s.Scan() returns false on a read error; main panics with s.Err().
main_readError ==
  /\ pc = "loop"
  /\ loopCond(g)
  /\ pc' = "panic"
  /\ text' = <<>>
  /\ UNCHANGED <<g, stdout, accepted, idle>>

Next ==
  \/ \E line \in InputLines : main_iteration(line)
  \/ main_complete
  \/ main_eof
  \/ main_readError

Spec == Init /\ [][Next]_vars

\* ------------------------------------------------------ src/termle.go
\* newBoard()
newBoard == [r \in 1..6 |-> [i \in 1..5 |-> black("_")]]

\* (b board) addGuess(turn, guess, answer) from index i on: one pass; a letter
\* is yellow whenever the answer contains it.  [b, panicked]
RECURSIVE board_addGuess(_, _, _, _, _)
board_addGuess(b, turn, guess, answer, i) ==
  IF i > Len(guess) THEN [b |-> b, panicked |-> FALSE]
  ELSE IF i > Len(answer) \/ turn < 0 \/ turn > 5 THEN [b |-> b, panicked |-> TRUE]
  ELSE LET c == guess[i]
           x == IF c = answer[i] THEN green(c)
                ELSE IF ContainsRune(answer, c) THEN yellow(c)
                ELSE black(c)
       IN board_addGuess([b EXCEPT ![turn + 1][i] = x], turn, guess, answer, i + 1)

\* (b board) print()
board_print(b) ==
  Concat([r \in 1..6 |-> Concat([i \in 1..5 |-> <<" ">> \o b[r][i]]) \o <<"\n">>])

\* printTurn(b), printTurnWithError(b, err)
termle_printTurn(b) == board_print(b) \o prompt
termle_printTurnWithError(b, err) == board_print(b) \o err \o <<"\n">> \o prompt

\* the offset of a file of five-byte records, without line endings
seekOffset_noLineEnding(day) == day * 5

\* the offset answerForDay of src/termle.go seeks to: int64(day*7)
seekOffset(day) == day * 7

\* answerForDay(day) of src/termle.go: Seek(day*7) and Read of 5 bytes.
\* [answer, panicked]: Seek fails on an offset outside the file and Read at
\* its end, and main panics; Read near the end leaves zero bytes ("NUL") in
\* the rest of the five-byte buffer.
termle_answerForDay(day) ==
  LET off == seekOffset(day) IN
  IF off < 0 \/ off >= Len(answers) THEN [answer |-> <<>>, panicked |-> TRUE]
  ELSE [answer |-> ToUpper([k \in 1..5 |-> IF off + k <= Len(answers)
                                             THEN answers[off + k] ELSE "NUL"]),
        panicked |-> FALSE]

\* main of src/termle.go up to its loop
TermleInit ==
  /\ answers = answersTxt
  /\ \E day \in Days :
       LET a == termle_answerForDay(day) IN
       /\ termle = [answer |-> a.answer, validGuesses |-> guessesSet, b |-> newBoard,
                    currentTurn |-> 0, turnsRemaining |-> 6]
       /\ pc = IF a.panicked THEN "panic" ELSE "loop"
       /\ stdout = IF a.panicked THEN <<>> ELSE termle_printTurn(newBoard)
  /\ text = <<>>
  /\ g = noGame
  /\ accepted = <<>>
  /\ now = 0 /\ zone = 0 /\ dayFlag = <<>>

\* One iteration of the loop of main of src/termle.go.
termle_iteration(line) ==
  /\ pc = "loop"
  /\ text' = line
  /\ LET guess == ToUpper(TrimSpace(line)) IN
     IF ~valid_MatchString(guess)
     THEN /\ stdout' = termle_printTurnWithError(termle.b, <<"Please enter a 5 letter word">>)
          /\ UNCHANGED <<termle, pc, accepted>>
     ELSE IF guess \notin termle.validGuesses
     THEN /\ stdout' = termle_printTurnWithError(termle.b, <<"Not in word list">>)
          /\ UNCHANGED <<termle, pc, accepted>>
     ELSE LET res == board_addGuess(termle.b, termle.currentTurn, guess, termle.answer, 1) IN
          IF res.panicked
          THEN /\ termle' = [termle EXCEPT !.b = res.b]
               /\ pc' = "panic"
               /\ UNCHANGED <<stdout, accepted>>
          ELSE IF guess = termle.answer
          THEN /\ termle' = [termle EXCEPT !.b = res.b]
               /\ stdout' = termle_printTurn(res.b) \o <<"you won!">>
               /\ accepted' = Append(accepted, guess)
               /\ pc' = "done"
          ELSE /\ termle' = [termle EXCEPT !.b = res.b,
                                           !.turnsRemaining = @ - 1,
                                           !.currentTurn = @ + 1]
               /\ accepted' = Append(accepted, guess)
               /\ IF termle.turnsRemaining - 1 = 0
                  THEN /\ stdout' = termle_printTurn(res.b)
                                    \o <<"you lose!", "\n", "Answer was ", " ">>
                                    \o termle.answer \o <<"\n">>
                       /\ pc' = "done"
                  ELSE /\ stdout' = termle_printTurn(res.b)
                       /\ pc' = "loop"
  /\ UNCHANGED <<answers, g, now, zone, dayFlag>>

\* s.Scan() returns false at the end of the input.
termle_eof ==
  /\ pc = "loop"
  /\ pc' = "done"
  /\ text' = <<>>
  /\ UNCHANGED <<answers, g, accepted, termle, stdout, now, zone, dayFlag>>

\* s.Scan() returns false on a read error; main panics with s.Err().
termle_readError ==
  /\ pc = "loop"
  /\ pc' = "panic"
  /\ text' = <<>>
  /\ UNCHANGED <<answers, g, accepted, termle, stdout, now, zone, dayFlag>>

TermleNext ==
  \/ \E line \in InputLines : termle_iteration(line)
  \/ termle_eof
  \/ termle_readError

TermleSpec == TermleInit /\ [][TermleNext]_vars

\* -------------------------------------------------------------- clock
\* An instant is a number of hours since 2021-01-01T00:00:00Z, a zone its
\* offset from UTC in hours; the model's clock stays within 2021.
HoursPerDay == 24
\* days of 2021 before month m (1..12), and before the year after
DaysBefore == <<0, 31, 59, 90, 120, 151, 181, 212, 243, 273, 304, 334, 365>>

\* floor of a / b for b > 0
FloorDiv(a, b) == IF a >= 0 THEN a \div b ELSE -(((-a) + b - 1) \div b)
\* int(x) of the float a / b for b > 0: truncation towards zero
TruncDiv(a, b) == IF a >= 0 THEN a \div b ELSE -((-a) \div b)

\* t.Date() in the zone: <<month, day of the month>> of 2021
Date(t, z) ==
  LET d == FloorDiv(t + z, HoursPerDay)
      m == CHOOSE k \in 1..12 : DaysBefore[k] <= d /\ d < DaysBefore[k + 1]
  IN <<m, d - DaysBefore[m] + 1>>

\* time.Date(2021, month, day, 0, 0, 0, 0, time.UTC)
DateUTC(month, day) == (DaysBefore[month] + day - 1) * HoursPerDay

\* firstDay = time.Date(2021, time.June, 19, 0, 0, 0, 0, time.UTC)
firstDay == DateUTC(6, 19)

\* daysSinceFirstWordle(): the local date of now, taken as a UTC midnight
daysSinceFirstWordle(t, z) ==
  LET date == Date(t, z)
      today == DateUTC(date[1], date[2])
  IN TruncDiv(today - firstDay, HoursPerDay)

\* currentDay() of src/termle.go
currentDay(t) == TruncDiv(t - firstDay, HoursPerDay) - 1

\* the instants and the zones of the clock
Clock == (firstDay - HoursPerDay)..(firstDay + (ClockDays + 1) * HoursPerDay - 1)
Zones == (-12)..14

\* Package initialisation is about to compute the default of the -day flag.
DayInit ==
  /\ answers = answersTxt
  /\ now \in Clock
  /\ zone \in Zones
  /\ dayFlag = <<>>
  /\ pc = "init"
  /\ g = noGame
  /\ accepted = <<>>
  /\ termle = noTermle
  /\ text = <<>>
  /\ stdout = <<>>

\* dayFlag = flag.Int("day", daysSinceFirstWordle(), ...)
init_dayFlag ==
  /\ pc = "init"
  /\ dayFlag' = <<daysSinceFirstWordle(now, zone)>>
  /\ pc' = "main"
  /\ UNCHANGED <<answers, g, accepted, termle, text, stdout, now, zone>>

\* dayFlag = flag.Int("day", currentDay(), ...) of src/termle.go
termle_init_dayFlag ==
  /\ pc = "init"
  /\ dayFlag' = <<currentDay(now)>>
  /\ pc' = "termle_main"
  /\ UNCHANGED <<answers, g, accepted, termle, text, stdout, now, zone>>

DayNext == init_dayFlag \/ termle_init_dayFlag

DaySpec == DayInit /\ [][DayNext]_vars

\* ------------------------------------------------------ answer lookup
\* The records an answers.txt is made of: the words of AnswerList and one
\* in mixed case.
AnswerRecords == Range(AnswerList) \cup { <<"C","r","a","N","e">> }
\* The files of NumAnswers records, each five letters and "\r\n".
AnswerFiles ==
  {fileOf(lines) : lines \in [1..NumAnswers -> AnswerRecords]}

\* Both programs are built with the same answers.txt and started with the
\* same -day; neither has looked its answer up.
LookupInit ==
  /\ answers \in AnswerFiles
  /\ \E day \in Days : dayFlag = <<day>>
  /\ pc = "main"
  /\ g = noGame
  /\ termle = noTermle
  /\ accepted = <<>>
  /\ text = <<>>
  /\ stdout = <<>>
  /\ now = 0 /\ zone = 0

\* g := newGame(*dayFlag, *hardFlag) of main: the line-scan lookup
main_newGame ==
  /\ pc = "main"
  /\ g = noGame
  /\ g' = newGame(dayFlag[1], FALSE)
  /\ UNCHANGED <<answers, accepted, termle, pc, text, stdout, now, zone, dayFlag>>

\* answer := answerForDay(*dayFlag) of main of src/termle.go: the seek lookup
termle_main_answerForDay ==
  /\ pc = "main"
  /\ termle = noTermle
  /\ LET a == termle_answerForDay(dayFlag[1]) IN
       termle' = [noTermle EXCEPT !.answer = a.answer, !.validGuesses = guessesSet,
                                  !.b = IF a.panicked THEN <<>> ELSE newBoard,
                                  !.turnsRemaining = IF a.panicked THEN 0 ELSE 6]
  /\ UNCHANGED <<answers, g, accepted, pc, text, stdout, now, zone, dayFlag>>

LookupNext == main_newGame \/ termle_main_answerForDay

LookupSpec == LookupInit /\ [][LookupNext]_vars

\* --------------------------------------------------------- evaluation
\* The inputs of the evaluation of one guess: every five-letter word over the
\* first NumLetters letters of EvalLetters, and the words of the examples.
EvalLetters == <<"A", "L", "O", "T">>
Examples == { <<"C","R","A","N","E">>, <<"T","R","A","C","E">>,
              <<"A","L","L","O","T">>, <<"L","L","A","M","A">> }
EvalWords ==
  {<<a, b, c, d, e>> : a \in Range(SubSeq(EvalLetters, 1, NumLetters)),
                       b \in Range(SubSeq(EvalLetters, 1, NumLetters)),
                       c \in Range(SubSeq(EvalLetters, 1, NumLetters)),
                       d \in Range(SubSeq(EvalLetters, 1, NumLetters)),
                       e \in Range(SubSeq(EvalLetters, 1, NumLetters))} \cup Examples

\* A new game whose answer and accepted guesses are drawn from EvalWords.
EvalInit ==
  /\ answers = answersTxt
  /\ \E a \in EvalWords :
        /\ g = [newGame(0, FALSE) EXCEPT !.answer = a, !.validGuesses = EvalWords]
        /\ stdout = printTurn(g)
  /\ pc = "loop"
  /\ text = <<>>
  /\ accepted = <<>>
  /\ termle = noTermle
  /\ now = 0 /\ zone = 0 /\ dayFlag = <<>>

\* The first guess of the game.
EvalNext == g.currentTurn = 0 /\ \E line \in EvalWords : main_iteration(line)

EvalSpec == EvalInit /\ [][EvalNext]_vars

\* ------------------------------------------------------------- claims
\* the letters and the colours of board row r (Go row r - 1)
RowLetters(r) == [i \in 1..5 |-> g.board[r][i].letter]
RowColors(r) == [i \in 1..5 |-> g.board[r][i].color]

\* occurrences of letter l in word w
Occ(w, l) == Cardinality({j \in DOMAIN w : w[j] = l})

\* The two-pass reference evaluation, as the specification words it.
RefCorrect(guess, answer, i) == guess[i] = answer[i]
RECURSIVE RefPresent(_, _, _)
RefPresent(guess, answer, i) ==
  /\ ~RefCorrect(guess, answer, i)
  /\ Occ(answer, guess[i]) > 0
  /\ Occ(answer, guess[i])
       - Cardinality({j \in 1..5 : guess[j] = guess[i] /\ RefCorrect(guess, answer, j)})
       - Cardinality({j \in 1..(i - 1) : guess[j] = guess[i] /\ RefPresent(guess, answer, j)})
     > 0
RefRow(guess, answer) ==
  [i \in 1..5 |-> IF RefCorrect(guess, answer, i) THEN greenSquare
                  ELSE IF RefPresent(guess, answer, i) THEN yellowSquare
                  ELSE blackSquare]

\* C1: for every five-letter answer and every accepted guess, the colours
\* addGuess wrote into the row of the guess are those of the two-pass
\* reference evaluation (correct where the letters match; then, left to
\* right, present while the letter's occurrences in the answer are not used up
\* by its correct and its earlier present positions; absent otherwise).
C1_TwoPassEvaluation ==
  \A r \in 1..Len(accepted) :
     Len(g.answer) = 5 => RowColors(r) = RefRow(accepted[r], g.answer)

\* C1's case: a guess with a letter more often than the answer has it was
\* evaluated, and one of its occurrences is absent for want of budget.
C1_Witness ==
  /\ Len(accepted) = 1
  /\ \E i \in 1..5 :
        /\ Occ(g.answer, accepted[1][i]) > 0
        /\ accepted[1][i] # g.answer[i]
        /\ RowColors(1)[i] = blackSquare

\* the guess main makes of a line, and whether it is five upper-case letters
Normal(line) == ToUpper(TrimSpace(line))
WellFormed(w) == Len(w) = 5 /\ \A i \in DOMAIN w : w[i] \in Range(Upper)

\* a step of main's loop that read a line and went on to the next prompt
LineRead == pc = "loop" /\ pc' = "loop" /\ vars' # vars

\* the terminal ends with the tokens of t
EndsWith(out, t) ==
  Len(out) >= Len(t) /\ SubSeq(out, Len(out) - Len(t) + 1, Len(out)) = t
HasToken(out, tok) == \E k \in DOMAIN out : out[k] = tok

\* what the terminal shows after the prompt
Summary ==
  IF HasToken(stdout, ">")
  THEN SubSeq(stdout, (CHOOSE k \in DOMAIN stdout : stdout[k] = ">") + 1, Len(stdout))
  ELSE <<>>

\* the error lines of hard mode
WrongFixedMsg(i, l) ==
  <<"Hard Mode: ", "position ">> \o Itoa(i - 1) \o <<" must contain \"", l, "\"", "\n", ">">>
MissingMsg(l) == <<"Hard Mode: ", "guess must contain \"", l, "\"", "\n", ">">>

\* the letters some accepted guess has a present mark for
PresentLetters ==
  {g.board[c[1]][c[2]].letter :
     c \in {d \in (1..Len(accepted)) \X (1..5) : g.board[d[1]][d[2]].color = yellowSquare}}
\* the correct marks of the accepted guesses: <<position, letter>>
CorrectMarks ==
  {<<c[2], g.board[c[1]][c[2]].letter>> :
     c \in {d \in (1..Len(accepted)) \X (1..5) : g.board[d[1]][d[2]].color = greenSquare}}

\* C2: in every evaluated row of the board of src/termle.go, no letter has
\* more correct or present marks than it has occurrences in the answer, and a
\* position whose letter matches the answer is correct.
C2_LetterBudget ==
  \A r \in 1..Len(accepted) :
     /\ \A l \in Range(accepted[r]) :
          Cardinality({i \in 1..5 : termle.b[r][i] \in {green(l), yellow(l)}})
            <= Occ(termle.answer, l)
     /\ \A i \in 1..5 :
          accepted[r][i] = termle.answer[i] => termle.b[r][i] = green(accepted[r][i])

\* The same of the rows of game.addGuess, which keeps the budget.
GameLetterBudget ==
  \A r \in 1..Len(accepted) :
     Len(g.answer) = 5 =>
       /\ \A l \in Range(accepted[r]) :
            Cardinality({i \in 1..5 : accepted[r][i] = l /\ RowColors(r)[i] # blackSquare})
              <= Occ(g.answer, l)
       /\ \A i \in 1..5 :
            accepted[r][i] = g.answer[i] => RowColors(r)[i] = greenSquare

\* C3 as the specification has it: TRACE against CRANE is the row
\* absent, correct, present, present, correct.
C3_SpecExample ==
  (g.answer = <<"C","R","A","N","E">> /\ accepted = << <<"T","R","A","C","E">> >>)
    => RowColors(1) = <<blackSquare, greenSquare, yellowSquare, yellowSquare, greenSquare>>

\* C3, amended: TRACE against CRANE is the row absent, correct, correct,
\* present, correct: the A of TRACE is at the A of CRANE.
C3_TraceAgainstCrane ==
  (g.answer = <<"C","R","A","N","E">> /\ accepted = << <<"T","R","A","C","E">> >>)
    => RowColors(1) = <<blackSquare, greenSquare, greenSquare, yellowSquare, greenSquare>>

\* C3's case: TRACE was evaluated against CRANE.
C3_Witness ==
  g.answer = <<"C","R","A","N","E">> /\ accepted = << <<"T","R","A","C","E">> >>

\* C4: six accepted guesses, none the answer, leave the game lost, and a game
\* is lost in no other way; an accepted guess that is the answer, the k-th
\* accepted, leaves the game won with currentTurn = k, and k is the count the
\* shareable score shows before "/6".
C4_TurnCounter ==
  LET k == Len(accepted)
      none == \A j \in 1..k : accepted[j] # g.answer
  IN /\ (k = 6 /\ none) => (g.complete /\ ~g.won)
     /\ (g.complete /\ ~g.won) => (k = 6 /\ none)
     /\ (k >= 1 /\ accepted[k] = g.answer) => (g.complete /\ g.won /\ g.currentTurn = k)
     /\ g.won => (k \in 1..6 /\ accepted[k] = g.answer)
     /\ (pc = "done" /\ g.won) =>
          \E j \in DOMAIN stdout :
             /\ stdout[j] = "/6"
             /\ SubSeq(stdout, j - 2, j - 1) = <<" ", Digits[k + 1]>>

\* C4's case: the sixth accepted guess is the answer, and the score is printed.
C4_Witness == pc = "done" /\ g.won /\ Len(accepted) = 6

\* whether main rejects the line, in the words of the claim
Rejectable(gm, line) ==
  \/ ~(Len(Normal(line)) = 5 /\ \A i \in 1..5 : Normal(line)[i] \in Range(Upper))
  \/ Normal(line) \notin gm.validGuesses
  \/ /\ gm.hardMode
     /\ \/ \E l \in gm.hints.yellow : ~ContainsRune(Normal(line), l)
        \/ \E i \in 1..5 : gm.hints.green[i] # emptyRune /\ gm.hints.green[i] # Normal(line)[i]

\* C5: a rejected line (not five letters once trimmed and upper-cased, not in
\* the guess set, or failing the hints in hard mode) leaves the whole game
\* unchanged (currentTurn, turnsRemaining, board, hints, complete, won) and
\* the player is prompted again.
C5_RejectedFrame ==
  [][(LineRead /\ Rejectable(g, text'))
       => (g' = g /\ accepted' = accepted /\ EndsWith(stdout', <<"\n", ">">>))]_vars

\* C5's case: in hard mode a guess failed the hints after an accepted guess.
C5_Witness ==
  /\ g.hardMode /\ Len(accepted) >= 1 /\ pc = "loop"
  /\ HasToken(stdout, "Hard Mode: ")
  /\ Rejectable(g, text)

\* C6 as claimed: in hard mode a well-formed guess of the guess set whose
\* letter at a position marked correct differs from the mark's letter is
\* rejected with "position i must contain <letter>" for that position i.
C6_AlwaysWrongFixedPosition ==
  [][(LineRead /\ g.hardMode /\ WellFormed(Normal(text')) /\ Normal(text') \in g.validGuesses)
       => \A m \in CorrectMarks :
             Normal(text')[m[1]] # m[2]
               => (g' = g /\ EndsWith(stdout', WrongFixedMsg(m[1], m[2])))]_vars

\* C6, amended: such a guess is rejected and the game is unchanged; the error
\* is "guess must contain <l>" for a present-marked letter l the guess lacks
\* when there is one, and otherwise "position j must contain <letter>" for
\* the lowest position j whose correct mark the guess does not repeat.
C6_RejectedByHints ==
  [][(LineRead /\ g.hardMode /\ WellFormed(Normal(text')) /\ Normal(text') \in g.validGuesses)
       => \A m \in CorrectMarks :
           Normal(text')[m[1]] # m[2]
           =>
           /\ g' = g /\ accepted' = accepted
           /\ LET lacks == {l \in PresentLetters : ~ContainsRune(Normal(text'), l)}
                  wrong == {n \in CorrectMarks : Normal(text')[n[1]] # n[2]}
                  low == CHOOSE n \in wrong : \A q \in wrong : n[1] <= q[1]
              IN IF lacks # {}
                 THEN \E l \in lacks : EndsWith(stdout', MissingMsg(l))
                 ELSE EndsWith(stdout', WrongFixedMsg(low[1], low[2]))]_vars

\* C6's case: in hard mode a guess was rejected for a position marked correct.
C6_Witness ==
  /\ g.hardMode /\ pc = "loop"
  /\ \E m \in CorrectMarks :
        /\ WellFormed(Normal(text)) /\ Normal(text)[m[1]] # m[2]
        /\ EndsWith(stdout, WrongFixedMsg(m[1], m[2]))

\* C7: in hard mode a well-formed guess of the guess set that lacks a letter
\* marked present by an accepted guess is rejected, the game unchanged, with
\* "guess must contain <letter>" naming a present-marked letter it lacks.
C7_MissingRequiredLetter ==
  [][(LineRead /\ g.hardMode /\ WellFormed(Normal(text')) /\ Normal(text') \in g.validGuesses)
       => \A l \in PresentLetters :
           ~ContainsRune(Normal(text'), l)
           =>
           /\ g' = g /\ accepted' = accepted
           /\ \E m \in PresentLetters :
                 ~ContainsRune(Normal(text'), m) /\ EndsWith(stdout', MissingMsg(m))]_vars

\* C7's case: in hard mode a guess was rejected for a present-marked letter.
C7_Witness ==
  /\ g.hardMode /\ pc = "loop"
  /\ \E l \in PresentLetters :
        /\ WellFormed(Normal(text)) /\ ~ContainsRune(Normal(text), l)
        /\ EndsWith(stdout, MissingMsg(l))

\* C8: once the game is complete no line is read or evaluated and the game
\* (currentTurn, turnsRemaining, board, hints, won, complete) never changes.
C8_NoTransitionOnceTerminal ==
  [][g.complete => (g' = g /\ accepted' = accepted /\ text' = text /\ g'.complete)]_vars

\* C8's case: a complete game whose main has ended.
C8_Witness == g.complete /\ pc = "done" /\ g.currentTurn < 6

\* the shareable score of the claim: the result, the day, the turn count or
\* X, and the colours of one row for each accepted guess
ExpectedScore ==
  (IF g.won THEN <<"you won!", "\n">>
   ELSE <<"you lose!", "\n", "Answer was", " ">> \o g.answer \o <<"\n">>)
  \o <<"Wordle ">> \o Itoa(g.day) \o <<" ">>
  \o (IF g.won THEN Itoa(Len(accepted)) ELSE <<"X">>) \o <<"/6", "\n", "\n">>
  \o Concat([r \in 1..Len(accepted) |-> RefRow(accepted[r], g.answer) \o <<"\n">>])

\* C9: when main has ended, the shareable score is on the terminal if and
\* only if the game is complete; if it is not, nothing follows the prompt
\* (no score, no answer); if it is, the score is the day, the turn count or
\* X and one row of colours, with no letters, for each accepted guess.
C9_ScoreIffComplete ==
  pc \in {"done", "panic"} =>
    /\ (Summary # <<>>) <=> g.complete
    /\ g.complete => Summary = ExpectedScore

\* C9's case: a lost game, its score printed.
C9_Witness == pc = "done" /\ g.complete /\ ~g.won /\ Len(accepted) = 6

\* C10: the default day is the number of whole days from the first day to
\* the UTC midnight of now; on 2021-06-20 (UTC) it is 1 in every zone.
C10_DefaultDay ==
  dayFlag # <<>> =>
    /\ dayFlag[1] = FloorDiv(now - firstDay, HoursPerDay)
    /\ (now \in DateUTC(6, 20)..(DateUTC(6, 21) - 1)) => dayFlag[1] = 1

\* C11: over an answers.txt of seven-byte records (five letters and a
\* two-byte line ending), for every day that is the index of a record, the
\* answer main of src/termle.go reads at offset day*7 and the answer newGame
\* scans to as line day+1 are the same word of five upper-case letters: the
\* upper-cased letters of record day.
C11_LookupsAgree ==
  (g # noGame /\ termle # noTermle /\ dayFlag[1] \in 0..(NumAnswers - 1))
    => /\ g.answer = termle.answer
       /\ WellFormed(g.answer)
       /\ g.answer = ToUpper(SubSeq(answers, dayFlag[1] * 7 + 1, dayFlag[1] * 7 + 5))

\* C11's case: both lookups were made for the last record of a file whose
\* records differ, and that record is not in upper case.
C11_Witness ==
  /\ g # noGame /\ termle # noTermle
  /\ dayFlag[1] = NumAnswers - 1
  /\ g.answer = <<"C","R","A","N","E">>
  /\ SubSeq(answers, 1, 5) # SubSeq(answers, dayFlag[1] * 7 + 1, dayFlag[1] * 7 + 5)

\* addGuess panicked on the guess main made of the line last read
Faulted == pc = "panic" /\ WellFormed(Normal(text))

\* C12: for every day a game is started with (below 0, on a record, past the
\* last record), once newGame has returned the answer is five upper-case
\* letters and no guess that passed main's checks makes addGuess panic.
C12_NoFaultInPlay ==
  g # noGame => (WellFormed(g.answer) /\ ~Faulted)

\* C13: every cell of the board, of a played row or not, is correct (green)
\* if and only if its letter is the answer's letter at its position; an
\* accepted guess that is the answer has a row of five correct cells.
C13_CorrectIffLetterMatches ==
  /\ \A r \in 1..6 : \A i \in 1..5 :
        (g.board[r][i].color = greenSquare)
          <=> (i <= Len(g.answer) /\ g.board[r][i].letter = g.answer[i])
  /\ \A r \in 1..Len(accepted) :
        accepted[r] = g.answer => RowColors(r) = [i \in 1..5 |-> greenSquare]

\* C13's case: a row with correct and other cells, then the row of the
\* answer, then placeholder rows.
C13_Witness ==
  /\ Len(accepted) = 2 /\ accepted[2] = g.answer
  /\ \E i, j \in 1..5 : /\ g.board[1][i].color = greenSquare
                         /\ g.board[1][j].color = yellowSquare
  /\ g.board[3][1].letter = "_"

\* the positions at which some accepted guess has the answer's letter
Matched(gm, acc) ==
  {i \in 1..5 : \E r \in 1..Len(acc) : i <= Len(gm.answer) /\ acc[r][i] = gm.answer[i]}

\* the green hints are those of the accepted guesses acc
GreenHintsOf(gm, acc) ==
  \A i \in 1..5 :
     IF i \in Matched(gm, acc) THEN gm.hints.green[i] = gm.answer[i]
     ELSE gm.hints.green[i] = emptyRune

\* C14: before and after every step of main, greenLetters[i] is unset when
\* no accepted guess has the answer's letter at position i and is answer[i]
\* when one has; a step, of an accepted or a rejected line, leaves every set
\* greenLetters[i] set to the same letter.
C14_GreenHints ==
  [][/\ GreenHintsOf(g, accepted)
     /\ GreenHintsOf(g', accepted')
     /\ \A i \in 1..5 :
          g.hints.green[i] # emptyRune => g'.hints.green[i] = g.hints.green[i]]_vars

\* C14's case: a green hint was set by the first accepted guess, a second
\* guess without the answer's letter there was accepted, and a line rejected.
C14_Witness ==
  /\ Len(accepted) = 2 /\ pc = "loop" /\ Rejectable(g, text)
  /\ \E i \in 1..5 : /\ accepted[1][i] = g.answer[i]
                      /\ accepted[2][i] # g.answer[i]
                      /\ g.hints.green[i] = g.answer[i]
  /\ \E i \in 1..5 : g.hints.green[i] = emptyRune

\* C15: in hard mode a well-formed guess of the guess set is rejected by
\* the hints, the game unchanged, if and only if it lacks a letter marked
\* present or differs from a letter marked correct in the rows of the guesses
\* accepted before it; otherwise it is accepted and recorded.  So the first
\* guess of a game is never rejected by the hints, and the marks a guess gets
\* when it is scored take no part in its own validation.
C15_HintsOfEarlierTurns ==
  [][(LineRead /\ g.hardMode /\ WellFormed(Normal(text')) /\ Normal(text') \in g.validGuesses)
       => LET fails == \/ \E l \in PresentLetters : ~ContainsRune(Normal(text'), l)
                       \/ \E m \in CorrectMarks : Normal(text')[m[1]] # m[2]
          IN /\ fails => /\ g' = g /\ accepted' = accepted
                          /\ HasToken(stdout', "Hard Mode: ")
             /\ ~fails => /\ accepted' = Append(accepted, Normal(text'))
                           /\ ~HasToken(stdout', "Hard Mode: ")
             /\ accepted = <<>> => accepted' = <<Normal(text')>>]_vars

\* C15's case: in hard mode the first guess was accepted and got marks, and
\* the second was accepted and got a present mark no earlier row has.
C15_Witness ==
  /\ g.hardMode /\ Len(accepted) = 2
  /\ \E i \in 1..5 : g.board[1][i].color # blackSquare
  /\ \E i \in 1..5 :
        /\ g.board[2][i].color = yellowSquare
        /\ \A j \in 1..5 : g.board[1][j].letter # g.board[2][i].letter

\* the placeholder row of newGame
PlaceholderRow == [i \in 1..5 |-> [color |-> blackSquare, letter |-> "_"]]

\* the rows from currentTurn on are placeholders, and every row before it
\* has the letters of the accepted guess of its turn and that guess's colours
RowsOf(gm, acc) ==
  \A r \in 1..6 :
     IF r > gm.currentTurn THEN gm.board[r] = PlaceholderRow
     ELSE /\ r <= Len(acc)
          /\ [i \in 1..5 |-> gm.board[r][i].letter] = acc[r]
          /\ [i \in 1..5 |-> gm.board[r][i].color] = RefRow(acc[r], gm.answer)

\* C16: before and after every step of main, the board rows with index >=
\* currentTurn are placeholders ('_', unrevealed) and each row with index <
\* currentTurn holds the letters and the colours of the accepted guess of
\* that turn; a step changes no row with index < currentTurn.
C16_BoardRows ==
  [][/\ RowsOf(g, accepted)
     /\ RowsOf(g', accepted')
     /\ \A r \in 1..g.currentTurn : g'.board[r] = g.board[r]]_vars

\* C16's case: three guesses were accepted, the last two differing from the
\* first, and three rows are left.
C16_Witness ==
  /\ Len(accepted) = 3 /\ g.currentTurn = 3 /\ pc = "loop"
  /\ accepted[2] # accepted[1] /\ accepted[3] # accepted[1]
  /\ RowLetters(1) = accepted[1]
  /\ g.board[4] = PlaceholderRow

\* C17: in every state of main, won implies complete; complete holds if and
\* only if won holds or turnsRemaining is 0; and won holds if and only if a
\* guess was accepted and the last one accepted is the answer.
C17_WonAndComplete ==
  /\ g.won => g.complete
  /\ g.complete <=> (g.won \/ g.turnsRemaining = 0)
  /\ g.won <=> (accepted # <<>> /\ accepted[Len(accepted)] = g.answer)

\* C17's case: the last turn was used up by a guess that is not the answer,
\* and main has not yet left its loop.
C17_Witness ==
  /\ pc = "loop" /\ g.turnsRemaining = 0 /\ g.complete /\ ~g.won
  /\ accepted[Len(accepted)] # g.answer

\* the counters of the game against the guesses accepted so far
Counters(gm, acc) ==
  /\ gm.currentTurn + gm.turnsRemaining = 6
  /\ gm.currentTurn \in 0..6
  /\ gm.currentTurn = Len(acc)

\* C18: before and after every step of main, currentTurn + turnsRemaining
\* is 6, currentTurn is within 0..6 and is the number of accepted guesses;
\* and a step that calls addGuess (it accepts the guess, or panics on it)
\* starts with currentTurn <= 5, so that board[currentTurn] is one of the
\* six rows.
C18_TurnWithinBoard ==
  [][/\ Counters(g, accepted)
     /\ Counters(g', accepted')
     /\ (accepted' # accepted \/ Faulted')
          => (g.currentTurn <= 5 /\ g.currentTurn + 1 \in DOMAIN g.board)]_vars

\* C18's case: addGuess wrote the sixth guess into the last row.
C18_Witness ==
  /\ pc = "loop" /\ g.currentTurn = 6 /\ g.turnsRemaining = 0
  /\ RowLetters(6) = accepted[6]

\* every yellow hint is a letter of the answer, every green hint that is set
\* is the answer's letter at its position, and the answer passes checkHints
HintsSound(gm) ==
  /\ \A l \in gm.hints.yellow : ContainsRune(gm.answer, l)
  /\ \A i \in 1..5 :
        gm.hints.green[i] # emptyRune
          => (i <= Len(gm.answer) /\ gm.hints.green[i] = gm.answer[i])
  /\ WellFormed(gm.answer) => checkHints(gm, gm.answer) = {<<>>}

\* C19: before and after every step of main the hints are sound (yellow
\* letters occur in the answer, set green hints equal the answer's letters,
\* the answer passes checkHints); and whenever main, in hard mode or not,
\* reads a line that is the answer while the game is not complete and the
\* answer is in the guess set, the guess is accepted and the game is won.
C19_AnswerAlwaysAccepted ==
  [][/\ HintsSound(g)
     /\ HintsSound(g')
     /\ (/\ pc = "loop" /\ ~g.complete /\ pc' # "done"
         /\ WellFormed(Normal(text')) /\ Normal(text') = g.answer
         /\ g.answer \in g.validGuesses)
          => (accepted' = Append(accepted, g.answer) /\ g'.won /\ pc' = "loop")]_vars

\* C19's case: in hard mode, with a yellow and a green hint from an earlier
\* guess, the answer was accepted.
C19_Witness ==
  /\ g.hardMode /\ g.won /\ Len(accepted) = 2
  /\ \E i \in 1..5 : g.board[1][i].color = yellowSquare
  /\ \E i \in 1..5 : g.board[1][i].color = greenSquare

\* a step of main's loop that read a line: it went on to the next prompt or
\* panicked in addGuess
IterationStep == pc = "loop" /\ ~g.complete /\ (pc' = "loop" \/ Faulted')

\* The game, the accepted guesses and main's position after the line, as
\* the answer, the guess set, the hard-mode flag and the lines so far fix
\* them.
Decided(gm, acc, line) ==
  IF Rejectable(gm, line) THEN [g |-> gm, accepted |-> acc, pc |-> "loop"]
  ELSE LET res == addGuess(gm, Normal(line)) IN
       IF res.panicked THEN [g |-> res.g, accepted |-> acc, pc |-> "panic"]
       ELSE [g |-> res.g, accepted |-> Append(acc, Normal(line)), pc |-> "loop"]

\* the terminal after the line, as the game before the line and the line
\* decide it, but for the letter l a "guess must contain" message names
Shown(gm, line, l) ==
  IF ~WellFormed(Normal(line))
  THEN printTurnWithError(gm, <<"Please enter a 5 letter word">>)
  ELSE IF Normal(line) \notin gm.validGuesses
  THEN printTurnWithError(gm, <<"Not in word list">>)
  ELSE IF ~Rejectable(gm, line)
  THEN printTurn(addGuess(gm, Normal(line)).g)
  ELSE IF \E y \in gm.hints.yellow : ~ContainsRune(Normal(line), y)
  THEN printTurnWithError(gm, <<"Hard Mode: ", "guess must contain \"", l, "\"">>)
  ELSE LET i == CHOOSE p \in 1..5 :
                  /\ gm.hints.green[p] \notin {emptyRune, Normal(line)[p]}
                  /\ \A q \in 1..(p - 1) :
                        gm.hints.green[q] \in {emptyRune, Normal(line)[q]}
       IN printTurnWithError(gm, <<"Hard Mode: ", "position ">> \o Itoa(i - 1)
                                   \o <<" must contain \"", gm.hints.green[i], "\"">>)

\* C20: every step of main that reads a line leaves the game (board, hints,
\* currentTurn, turnsRemaining, complete, won), the accepted guesses and
\* main's position as the game before the line and the line alone decide
\* them, whichever yellow letter checkHints came upon first; the terminal is
\* decided likewise, but for which yellow letter a "guess must contain"
\* message names.
C20_OrderIndependent ==
  [][IterationStep
       => LET d == Decided(g, accepted, text') IN
          /\ g' = d.g
          /\ accepted' = d.accepted
          /\ pc' = d.pc
          /\ IF pc' = "panic" THEN stdout' = stdout
             ELSE \E l \in g.hints.yellow \cup {emptyRune} :
                     stdout' = Shown(g, text', l)]_vars

\* C20's case: in hard mode a guess lacking two present-marked letters was
\* rejected, the message naming one of them.
C20_Witness ==
  /\ g.hardMode /\ pc = "loop" /\ WellFormed(Normal(text))
  /\ Cardinality({l \in g.hints.yellow : ~ContainsRune(Normal(text), l)}) >= 2
  /\ \E l \in g.hints.yellow : EndsWith(stdout, MissingMsg(l))

====
